---- MODULE Spec2Model ----
(***************************************************************************)
(* A model of three fragments of Home Assistant core:                      *)
(*   - homeassistant/components/husqvarna_automower/number.py              *)
(*       the "number" platform of the mower integration: entity setup,     *)
(*       reconciliation of work-area entities with the entity registry,    *)
(*       and the two write paths (device level and work-area level);       *)
(*   - homeassistant/components/plant/group.py                             *)
(*       the on/off state description of the plant integration;            *)
(*   - tests/components/teslemetry/test_init.py                            *)
(*       the set-up error table of the teslemetry integration.             *)
(*                                                                         *)
(* Python strings are modelled as sequences of one-character strings, so   *)
(* that formatting (f-strings), str.split and str.endswith are computed    *)
(* the way Python computes them.                                           *)
(***************************************************************************)
EXTENDS Integers, Sequences, FiniteSets, TLC

VARIABLES
    \* ---- number platform: setup and reconciliation
    data,            \* coordinator.data: mower_id -> MowerAttributes
    registry,        \* the host's entity registry: a set of registry entries
    entities,        \* the list last passed to async_add_entities
    loaded,          \* whether the number platform of the entry is set up
    last,            \* the operation that produced the current state
    registry_before, \* the registry as it was when the last pass started
    reconciled,      \* mower_id argument of the last async_remove_entities
    \* ---- number platform: write paths
    wpc,             \* position of the running async_set_native_value
    wreq,            \* the entity written to and the value written
    calls,           \* the calls made on the vendor session and coordinator
    now,             \* the event loop's clock
    wake_at,         \* when the pending asyncio.sleep ends
    returned_at,     \* when the vendor call returned
    vendor_result,   \* what the vendor call returned or raised
    outcome,         \* how async_set_native_value ended
    \* ---- host: teslemetry config entry set-up, group registry
    side_effect,     \* the mocked vendor calls' side effects
    tpc,             \* position of the teslemetry entry's set-up
    entry_state,     \* ConfigEntryState of the teslemetry entry
    raised,          \* the first vendor error raised during set-up
    group_registry,  \* calls received by GroupIntegrationRegistry.on_off_states
    described        \* number of async_describe_on_off_states calls made

numberVars == <<data, registry, entities, loaded, last, registry_before, reconciled>>
writeVars  == <<wpc, wreq, calls, now, wake_at, returned_at, vendor_result, outcome>>
hostVars   == <<side_effect, tpc, entry_state, raised, group_registry, described>>
vars       == <<numberVars, writeVars, hostVars>>

-----------------------------------------------------------------------------
(* Bounds of the model.                                                    *)

\* At most this many mowers in coordinator.data.
MaxMowers == 2
\* At most this many entries in the persisted registry a pass starts from.
MaxRegistry == 3
\* The vendor call takes at most this many clock ticks to return.
MaxLatency == 2
\* async_describe_on_off_states is invoked at most this many times.
MaxDescribe == 2

-----------------------------------------------------------------------------
(* Python strings.                                                         *)

Digit(d) ==
    CASE d = 0 -> "0" [] d = 1 -> "1" [] d = 2 -> "2" [] d = 3 -> "3"
      [] d = 4 -> "4" [] d = 5 -> "5" [] d = 6 -> "6" [] d = 7 -> "7"
      [] d = 8 -> "8" [] d = 9 -> "9"

RECURSIVE NatToStr(_)
NatToStr(n) ==
    IF n < 10 THEN <<Digit(n)>> ELSE NatToStr(n \div 10) \o <<Digit(n % 10)>>

\* str(i) of a Python int, as an f-string formats it.
IntToStr(i) == IF i < 0 THEN <<"-">> \o NatToStr(-i) ELSE NatToStr(i)

\* s.split("_")[0]: the part of s before its first "_", all of s without one.
RECURSIVE SplitFirst(_)
SplitFirst(s) ==
    IF s = <<>> \/ Head(s) = "_" THEN <<>> ELSE <<Head(s)>> \o SplitFirst(Tail(s))

\* s.endswith(suffix)
EndsWith(s, suffix) ==
    /\ Len(suffix) <= Len(s)
    /\ SubSeq(s, Len(s) - Len(suffix) + 1, Len(s)) = suffix

\* "cutting_height"
CUTTING_HEIGHT ==
    <<"c","u","t","t","i","n","g","_","h","e","i","g","h","t">>

\* "cutting_height_work_area"
CUTTING_HEIGHT_WORK_AREA ==
    CUTTING_HEIGHT \o <<"_","w","o","r","k","_","a","r","e","a">>

-----------------------------------------------------------------------------
(* The number platform's data.                                             *)

\* Mower ids: a plain id, an id it is a prefix of, and an id that holds "_".
MowerIds == { <<"a">>, <<"a","b">>, <<"a","_","b">> }

\* Work-area ids the vendor reports: 0 is "my lawn".
AreaIds == {0, 3}

\* Work-area ids a persisted registry may hold: those, and one since deleted.
PersistedAreaIds == AreaIds \cup {7}

\* MowerAttributes.work_areas: None, or a dict keyed by work-area id.
NoWorkAreas == [is_none |-> TRUE, ids |-> {}]
WorkAreas(ids) == [is_none |-> FALSE, ids |-> ids]
WorkAreasChoices == {NoWorkAreas} \cup {WorkAreas(ids) : ids \in SUBSET AreaIds}

\* MowerAttributes: capabilities.work_areas, work_areas, cutting_height
\* (cutting_height is None or an int; only its presence is read at setup).
MowerAttributes ==
    [capabilities_work_areas : BOOLEAN,
     work_areas : WorkAreasChoices,
     has_cutting_height : BOOLEAN]

\* The config entry the platform is set up for, and another entry of the host.
ENTRY == "entry"
OTHER_ENTRY == "other_entry"

\* An order of iteration over a set (a dict's keys are iterated in one order).
RECURSIVE SetToSeq(_)
SetToSeq(S) ==
    IF S = {} THEN <<>>
    ELSE LET x == CHOOSE y \in S : TRUE IN <<x>> \o SetToSeq(S \ {x})

Range(s) == {s[i] : i \in 1..Len(s)}

\* NUMBER_TYPES[0].key and WORK_AREA_NUMBER_TYPES[0].key
NUMBER_TYPES == <<[key |-> CUTTING_HEIGHT]>>
WORK_AREA_NUMBER_TYPES == <<[key |-> CUTTING_HEIGHT_WORK_AREA]>>

\* NUMBER_TYPES[0].exists_fn
exists_fn(attrs) == attrs.has_cutting_height

\* AutomowerNumberEntity.__init__
AutomowerNumberEntity(mower_id, description) ==
    [mower_id |-> mower_id,
     work_area_id |-> -1,
     unique_id |-> mower_id \o <<"_">> \o description.key]

\* AutomowerWorkAreaNumberEntity.__init__
AutomowerWorkAreaNumberEntity(mower_id, description, work_area_id) ==
    [mower_id |-> mower_id,
     work_area_id |-> work_area_id,
     unique_id |-> mower_id \o <<"_">> \o IntToStr(work_area_id)
                       \o <<"_">> \o description.key]

\* A registry entry: the entity's unique id and the config entry it belongs to.
RegistryEntry(unique_id, config_entry_id) ==
    [unique_id |-> unique_id, config_entry_id |-> config_entry_id]

\* er.async_entries_for_config_entry
async_entries_for_config_entry(reg, config_entry_id) ==
    {e \in reg : e.config_entry_id = config_entry_id}

\* The set active_work_areas built by async_remove_entities.
active_work_areas(d, mower_id) ==
    {mower_id \o <<"_">> \o IntToStr(work_area_id) \o <<"_">>
         \o CUTTING_HEIGHT_WORK_AREA : work_area_id \in d[mower_id].work_areas.ids}

\* The three nested conditions of async_remove_entities.
Removable(entity_entry, d, mower_id) ==
    /\ SplitFirst(entity_entry.unique_id) = mower_id
    /\ EndsWith(entity_entry.unique_id, CUTTING_HEIGHT_WORK_AREA)
    /\ entity_entry.unique_id \notin active_work_areas(d, mower_id)

\* async_remove_entities: the registry it leaves.
async_remove_entities(reg, d, config_entry_id, mower_id) ==
    IF d[mower_id].work_areas.is_none THEN reg
    ELSE reg \ {entity_entry \in async_entries_for_config_entry(reg, config_entry_id) :
                   Removable(entity_entry, d, mower_id)}

\* The loop of async_setup_entry over coordinator.data that builds the
\* work-area entities: mowers is the order in which the dict is iterated.
RECURSIVE WorkAreaEntities(_, _)
WorkAreaEntities(d, mowers) ==
    IF mowers = <<>> THEN <<>>
    ELSE LET mower_id == Head(mowers)
             _work_areas == d[mower_id].work_areas
             mine ==
                 IF d[mower_id].capabilities_work_areas /\ ~_work_areas.is_none
                 THEN LET ids == SetToSeq(_work_areas.ids)
                      IN  [i \in 1..Len(ids) |->
                              AutomowerWorkAreaNumberEntity(
                                  mower_id, WORK_AREA_NUMBER_TYPES[1], ids[i])]
                 ELSE <<>>
         IN  mine \o WorkAreaEntities(d, Tail(mowers))

\* The same loop's calls of async_remove_entities.
RECURSIVE RemovalPasses(_, _, _, _)
RemovalPasses(reg, d, config_entry_id, mowers) ==
    IF mowers = <<>> THEN reg
    ELSE LET mower_id == Head(mowers)
             after ==
                 IF d[mower_id].capabilities_work_areas
                 THEN async_remove_entities(reg, d, config_entry_id, mower_id)
                 ELSE reg
         IN  RemovalPasses(after, d, config_entry_id, Tail(mowers))

\* The second entities.extend of async_setup_entry: the device-level entities.
RECURSIVE DeviceEntities(_, _)
DeviceEntities(d, mowers) ==
    IF mowers = <<>> THEN <<>>
    ELSE LET mower_id == Head(mowers)
             mine == IF exists_fn(d[mower_id])
                     THEN <<AutomowerNumberEntity(mower_id, NUMBER_TYPES[1])>>
                     ELSE <<>>
         IN  mine \o DeviceEntities(d, Tail(mowers))

\* Mutant of SetupEntities: the last work area of the list is not created.
SetupEntitiesDroppingOne(d) ==
    LET mowers == SetToSeq(DOMAIN d)
        was == WorkAreaEntities(d, mowers)
    IN  (IF was = <<>> THEN <<>> ELSE SubSeq(was, 1, Len(was) - 1))
            \o DeviceEntities(d, mowers)

\* The list async_setup_entry passes to async_add_entities.
SetupEntities(d) ==
    LET mowers == SetToSeq(DOMAIN d)
    IN  WorkAreaEntities(d, mowers) \o DeviceEntities(d, mowers)

\* The host's async_add_entities: each entity handed over is registered under
\* its unique id for the config entry; an entry that exists is kept.
HostRegister(reg, ents, config_entry_id) ==
    reg \cup {RegistryEntry(ents[i].unique_id, config_entry_id) : i \in 1..Len(ents)}

-----------------------------------------------------------------------------
(* Initial values of the parts a specification does not exercise.          *)

NoRequest == [kind |-> "none", mower_id |-> <<>>, value |-> 0, work_area_id |-> -1]
NoOutcome == [type |-> "none", message |-> <<>>]

NumberIdle ==
    /\ data = << >>
    /\ registry = {}
    /\ entities = <<>>
    /\ loaded = FALSE
    /\ last = "init"
    /\ registry_before = {}
    /\ reconciled = <<>>

WriteIdle ==
    /\ wpc = "idle"
    /\ wreq = NoRequest
    /\ calls = <<>>
    /\ now = 0
    /\ wake_at = -1
    /\ returned_at = -1
    /\ vendor_result = NoOutcome
    /\ outcome = NoOutcome

HostIdle ==
    /\ side_effect = << >>
    /\ tpc = 0
    /\ entry_state = "NOT_LOADED"
    /\ raised = "none"
    /\ group_registry = <<>>
    /\ described = 0

-----------------------------------------------------------------------------
(* Setup and reconciliation of the number platform.                        *)

\* The subsets of U with at most k elements.
RECURSIVE UpTo(_, _)
UpTo(U, k) ==
    IF k = 0 \/ U = {} THEN {{}}
    ELSE LET x == CHOOSE y \in U : TRUE
             rest == U \ {x}
         IN  UpTo(rest, k) \cup {S \cup {x} : S \in UpTo(rest, k - 1)}

\* coordinator.data: at most MaxMowers mowers, each with attributes from attrs.
DataChoices(attrs) ==
    UNION {[D -> attrs] : D \in UpTo(MowerIds, MaxMowers)}

\* What a persisted registry may hold: work-area and device-level entries of
\* this config entry, and work-area entries of another config entry.
EntryUniverse ==
    {RegistryEntry(AutomowerWorkAreaNumberEntity(
                       m, WORK_AREA_NUMBER_TYPES[1], w).unique_id, c) :
         m \in MowerIds, w \in PersistedAreaIds, c \in {ENTRY, OTHER_ENTRY}}
    \cup {RegistryEntry(AutomowerNumberEntity(m, NUMBER_TYPES[1]).unique_id, ENTRY) :
             m \in MowerIds}

\* The platform of a fresh installation: the coordinator holds its first data.
InitNumber ==
    /\ data \in DataChoices(MowerAttributes)
    /\ registry = {}
    /\ entities = <<>>
    /\ loaded = FALSE
    /\ last = "init"
    /\ registry_before = {}
    /\ reconciled = <<>>
    /\ WriteIdle
    /\ HostIdle

\* async_setup_entry, with the host's registration of the entities it adds.
SetupEntry ==
    /\ ~loaded
    /\ LET mowers == SetToSeq(DOMAIN data)
           ents == SetupEntities(data)
       IN  /\ entities' = ents
           /\ registry' = HostRegister(
                  RemovalPasses(registry, data, ENTRY, mowers), ents, ENTRY)
    /\ loaded' = TRUE
    /\ last' = "setup"
    /\ UNCHANGED <<data, registry_before, reconciled, writeVars, hostVars>>

\* The coordinator refreshes: the vendor reports another work-area dict.
CoordinatorUpdate ==
    /\ loaded
    /\ \E mower_id \in DOMAIN data, wa \in WorkAreasChoices :
          /\ wa # data[mower_id].work_areas
          /\ data' = [data EXCEPT ![mower_id].work_areas = wa]
    /\ last' = "update"
    /\ UNCHANGED <<registry, entities, loaded, registry_before, reconciled,
                   writeVars, hostVars>>

\* The host unloads the entry (a reload sets it up again).
UnloadEntry ==
    /\ loaded
    /\ loaded' = FALSE
    /\ entities' = <<>>
    /\ last' = "unload"
    /\ UNCHANGED <<data, registry, registry_before, reconciled, writeVars, hostVars>>

\* Setting the platform up, the coordinator's updates while it is loaded, and
\* unloading it.
Next == SetupEntry \/ CoordinatorUpdate \/ UnloadEntry

Spec == InitNumber /\ [][Next]_vars

\* The host sets the entry up once it is not loaded; updates and unloads are
\* the vendor's and the user's to make.
FairSpec == Spec /\ WF_vars(SetupEntry)

\* One reconciliation pass from any coordinator data and persisted registry.
InitReconcile ==
    /\ data \in DataChoices([capabilities_work_areas : {TRUE},
                             work_areas : WorkAreasChoices,
                             has_cutting_height : {TRUE}])
    /\ registry \in UpTo(EntryUniverse, MaxRegistry)
    /\ entities = <<>>
    /\ loaded = FALSE
    /\ last = "init"
    /\ registry_before = {}
    /\ reconciled = <<>>
    /\ WriteIdle
    /\ HostIdle

\* async_remove_entities(hass, coordinator, config_entry, mower_id)
Reconcile ==
    /\ last = "init"
    /\ \E mower_id \in DOMAIN data :
          /\ registry' = async_remove_entities(registry, data, ENTRY, mower_id)
          /\ reconciled' = mower_id
    /\ registry_before' = registry
    /\ last' = "reconcile"
    /\ UNCHANGED <<data, entities, loaded, writeVars, hostVars>>

NextReconcile == Reconcile

SpecReconcile == InitReconcile /\ [][NextReconcile]_vars

-----------------------------------------------------------------------------
(* The write paths of the number platform.                                 *)
(* A float is modelled by its value in tenths: 29 is 2.9.  Message texts   *)
(* are sequences of words.                                                 *)

\* Values handed to async_set_native_value, in tenths.
Values == {-15, 5, 29, 40}

\* Texts an ApiException of the vendor library may carry.
ApiTexts == { <<>>, <<"timeout">>, <<"rate", "limit">> }

\* The vendor call, or async_set_native_value, returned.
Ok == [type |-> "ok", message |-> <<>>]

\* What the vendor call may do: return, raise ApiException, or raise an
\* exception of another type.
VendorResults ==
    {Ok}
    \cup {[type |-> "ApiException", message |-> t] : t \in ApiTexts}
    \cup {[type |-> "Exception", message |-> <<"boom">>]}

Requests ==
    {[kind |-> "device", mower_id |-> m, value |-> v, work_area_id |-> -1] :
         m \in MowerIds, v \in Values}
    \cup {[kind |-> "work_area", mower_id |-> m, value |-> v, work_area_id |-> w] :
             m \in MowerIds, v \in Values, w \in AreaIds}

\* Mutant of int: rounds to the nearest integer.
int_rounding(tenths) ==
    IF tenths >= 0 THEN (tenths + 5) \div 10 ELSE -((-tenths + 5) \div 10)

\* int(cheight): truncation towards zero.
int(tenths) == IF tenths >= 0 THEN tenths \div 10 ELSE -((-tenths) \div 10)

Call(op, args, at) == [op |-> op, args |-> args, at |-> at]

\* The seconds async_set_work_area_cutting_height sleeps.
SLEEP_SECONDS == 5

\* entity_description.set_value_fn up to its first await: the vendor call of
\* async_set_cutting_height or of async_set_work_area_cutting_height.
set_value_fn(req, at) ==
    IF req.kind = "device"
    THEN Call("set_cutting_height", <<req.mower_id, int(req.value)>>, at)
    ELSE Call("set_cutting_height_workarea",
              <<req.mower_id, int(req.value), req.work_area_id>>, at)

\* Mutant of AfterVendorReturn: the work-area path sleeps no time.
AfterVendorReturnNoSleep(req, at) ==
    IF req.kind = "device"
    THEN [pc |-> "done", calls |-> <<>>, wake_at |-> -1, outcome |-> Ok]
    ELSE [pc |-> "sleep", calls |-> <<Call("sleep", <<0>>, at)>>,
          wake_at |-> at, outcome |-> NoOutcome]

\* What follows the vendor call's return: async_set_cutting_height is over,
\* async_set_work_area_cutting_height enters asyncio.sleep(5).
AfterVendorReturn(req, at) ==
    IF req.kind = "device"
    THEN [pc |-> "done", calls |-> <<>>, wake_at |-> -1, outcome |-> Ok]
    ELSE [pc |-> "sleep", calls |-> <<Call("sleep", <<SLEEP_SECONDS>>, at)>>,
          wake_at |-> at + SLEEP_SECONDS, outcome |-> NoOutcome]

\* "Command couldn't be sent to the command queue: "
COMMAND_NOT_SENT == <<"Command", "couldn't", "be", "sent", "to", "the",
                      "command", "queue:">>

\* Mutant of Raised: the HomeAssistantError carries no exception text.
RaisedWithoutText(exception) ==
    IF exception.type = "ApiException"
    THEN [type |-> "HomeAssistantError", message |-> COMMAND_NOT_SENT]
    ELSE exception

\* What async_set_native_value raises when set_value_fn raised exception:
\* the except clause takes ApiException only.
Raised(exception) ==
    IF exception.type = "ApiException"
    THEN [type |-> "HomeAssistantError",
          message |-> COMMAND_NOT_SENT \o exception.message]
    ELSE exception

\* Mutant of AfterVendorRaise: the failure is swallowed and the path goes on.
AfterVendorRaiseGoingOn(req, exception, at) ==
    AfterVendorReturn(req, at)

\* What follows the vendor call's raising: the exception leaves set_value_fn
\* at its first await, and async_set_native_value with it.
AfterVendorRaise(req, exception, at) ==
    [pc |-> "done", calls |-> <<>>, wake_at |-> -1, outcome |-> Raised(exception)]

InitWrite ==
    /\ NumberIdle
    /\ HostIdle
    /\ WriteIdle

\* async_set_native_value(value) is called on an entity: it runs to the await
\* of the vendor call.
SetNativeValue ==
    /\ wpc = "idle"
    /\ \E req \in Requests :
          /\ wreq' = req
          /\ calls' = <<set_value_fn(req, now)>>
    /\ wpc' = "vendor"
    /\ UNCHANGED <<now, wake_at, returned_at, vendor_result, outcome,
                   numberVars, hostVars>>

\* The clock advances while the vendor call or the sleep is pending.
Tick ==
    /\ \/ wpc = "vendor" /\ now < MaxLatency
       \/ wpc = "sleep" /\ now < wake_at
    /\ now' = now + 1
    /\ UNCHANGED <<wpc, wreq, calls, wake_at, returned_at, vendor_result, outcome,
                   numberVars, hostVars>>

\* The vendor call returns or raises.
VendorDone ==
    /\ wpc = "vendor"
    /\ \E result \in VendorResults :
          /\ vendor_result' = result
          /\ LET after == IF result.type = "ok"
                          THEN AfterVendorReturn(wreq, now)
                          ELSE AfterVendorRaise(wreq, result, now)
             IN  /\ wpc' = after.pc
                 /\ calls' = calls \o after.calls
                 /\ wake_at' = after.wake_at
                 /\ outcome' = after.outcome
    /\ returned_at' = now
    /\ UNCHANGED <<wreq, now, numberVars, hostVars>>

\* asyncio.sleep(5) is over: coordinator.async_request_refresh() is called.
Wake ==
    /\ wpc = "sleep"
    /\ now >= wake_at
    /\ calls' = Append(calls, Call("async_request_refresh", <<>>, now))
    /\ wpc' = "refresh"
    /\ UNCHANGED <<wreq, now, wake_at, returned_at, vendor_result, outcome,
                   numberVars, hostVars>>

\* The refresh request returns, and async_set_native_value with it.
RefreshDone ==
    /\ wpc = "refresh"
    /\ wpc' = "done"
    /\ outcome' = Ok
    /\ UNCHANGED <<wreq, calls, now, wake_at, returned_at, vendor_result,
                   numberVars, hostVars>>

\* The host cancels the task while it sleeps: CancelledError leaves the await.
Cancel ==
    /\ wpc = "sleep"
    /\ wpc' = "done"
    /\ outcome' = [type |-> "CancelledError", message |-> <<>>]
    /\ UNCHANGED <<wreq, calls, now, wake_at, returned_at, vendor_result,
                   numberVars, hostVars>>

NextWrite == SetNativeValue \/ Tick \/ VendorDone \/ Wake \/ RefreshDone \/ Cancel

SpecWrite == InitWrite /\ [][NextWrite]_vars

-----------------------------------------------------------------------------
(* The host: set-up of the teslemetry config entry, the group registry.    *)

\* The vendor calls of the entry's set-up that the tests mock, in the order
\* the set-up makes them.
TeslaCalls == <<"products", "vehicle_data", "live_status", "site_info">>

\* Mutant of ERRORS: every error is taken for a temporary one.
ERRORS_all_retry ==
    [InvalidToken |-> "SETUP_RETRY",
     SubscriptionRequired |-> "SETUP_RETRY",
     TeslaFleetError |-> "SETUP_RETRY"]

\* The parametrized side effects and the entry state expected for each.
ERRORS ==
    [InvalidToken |-> "SETUP_ERROR",
     SubscriptionRequired |-> "SETUP_ERROR",
     TeslaFleetError |-> "SETUP_RETRY"]

SideEffects == {"none"} \cup DOMAIN ERRORS

\* homeassistant.const.STATE_PROBLEM, STATE_OK and plant's DOMAIN
STATE_PROBLEM == "problem"
STATE_OK == "ok"
PLANT_DOMAIN == "plant"

\* Mutant of async_describe_on_off_states: on and off states exchanged.
async_describe_exchanged ==
    <<[domain |-> PLANT_DOMAIN, on_states |-> {STATE_OK},
       default_on_state |-> STATE_OK, off_state |-> STATE_PROBLEM]>>

\* async_describe_on_off_states: the calls it makes on the registry.
async_describe_on_off_states ==
    <<[domain |-> PLANT_DOMAIN, on_states |-> {STATE_PROBLEM},
       default_on_state |-> STATE_PROBLEM, off_state |-> STATE_OK]>>

InitHost ==
    /\ NumberIdle
    /\ WriteIdle
    /\ side_effect \in [Range(TeslaCalls) -> SideEffects]
    /\ tpc = 0
    /\ entry_state = "NOT_LOADED"
    /\ raised = "none"
    /\ group_registry = <<>>
    /\ described = 0

\* setup_platform(hass): the host starts setting the entry up.
SetupPlatform ==
    /\ tpc = 0
    /\ entry_state = "NOT_LOADED"
    /\ tpc' = 1
    /\ entry_state' = "SETUP_IN_PROGRESS"
    /\ raised' = "none"
    /\ UNCHANGED <<side_effect, group_registry, described, numberVars, writeVars>>

\* The set-up makes its next vendor call: a side effect ends the set-up in the
\* state the error stands for, the last call's return ends it loaded.
TeslaCall ==
    /\ tpc \in 1..Len(TeslaCalls)
    /\ LET effect == side_effect[TeslaCalls[tpc]]
       IN  IF effect = "none"
           THEN /\ tpc' = IF tpc = Len(TeslaCalls) THEN 0 ELSE tpc + 1
                /\ entry_state' = IF tpc = Len(TeslaCalls) THEN "LOADED" ELSE entry_state
                /\ raised' = raised
           ELSE /\ tpc' = 0
                /\ entry_state' = ERRORS[effect]
                /\ raised' = effect
    /\ UNCHANGED <<side_effect, group_registry, described, numberVars, writeVars>>

\* hass.config_entries.async_unload(entry.entry_id)
UnloadPlatform ==
    /\ entry_state = "LOADED"
    /\ entry_state' = "NOT_LOADED"
    /\ UNCHANGED <<side_effect, tpc, raised, group_registry, described,
                   numberVars, writeVars>>

\* The group integration asks the plant platform to describe its states.
DescribeOnOffStates ==
    /\ described < MaxDescribe
    /\ group_registry' = group_registry \o async_describe_on_off_states
    /\ described' = described + 1
    /\ UNCHANGED <<side_effect, tpc, entry_state, raised, numberVars, writeVars>>

NextHost == SetupPlatform \/ TeslaCall \/ UnloadPlatform \/ DescribeOnOffStates

SpecHost == InitHost /\ [][NextHost]_vars

-----------------------------------------------------------------------------
(* Properties.                                                             *)

\* "{device_id}_{area_id}_cutting_height_work_area"
Identity(device_id, area_id) ==
    device_id \o <<"_">> \o IntToStr(area_id) \o <<"_">> \o CUTTING_HEIGHT_WORK_AREA

\* "{device_id}_cutting_height"
DeviceIdentity(device_id) == device_id \o <<"_">> \o CUTTING_HEIGHT

\* text occurs in s
Contains(s, text) ==
    \E i \in 1..(Len(s) - Len(text) + 1) : SubSeq(s, i, i + Len(text) - 1) = text

UniqueIds(ents) == {ents[i].unique_id : i \in 1..Len(ents)}

Ops(cs) == [i \in 1..Len(cs) |-> cs[i].op]

\* C1: a reconciliation pass for a mower whose snapshot holds a work-area dict
\* removes from the registry exactly the entries of this config entry that are
\* work-area instances of that mower for an id absent from the dict, and
\* nothing else.
C1_RemovesExactlyStale ==
    (last = "reconcile" /\ ~data[reconciled].work_areas.is_none) =>
        registry = registry_before \
            {e \in registry_before :
                /\ e.config_entry_id = ENTRY
                /\ \E w \in PersistedAreaIds \ data[reconciled].work_areas.ids :
                      e.unique_id = Identity(reconciled, w)}

\* C10: a reconciliation pass for one mower leaves in the registry every entry
\* of another mower of the same config entry: its work-area instances and its
\* device-level instance.
C10_OtherMowerUntouched ==
    last = "reconcile" =>
        \A other \in DOMAIN data \ {reconciled} :
            \A e \in registry_before :
                (/\ e.config_entry_id = ENTRY
                 /\ \/ e.unique_id = DeviceIdentity(other)
                    \/ \E w \in PersistedAreaIds : e.unique_id = Identity(other, w))
                => e \in registry

\* C2, as stated: when async_setup_entry has completed, every work-area id of
\* every mower's snapshot has an instance of its identity among the entities
\* handed to the host.
C2_EveryWorkAreaAdded ==
    last = "setup" =>
        \A m \in DOMAIN data : \A w \in data[m].work_areas.ids :
            Identity(m, w) \in UniqueIds(entities)

\* C2, amended: when async_setup_entry has completed, every work-area id of the
\* snapshot of every mower whose capabilities report work areas has an instance
\* of its identity, for that mower and that work area, among the entities
\* handed to the host.
C2_CapableWorkAreasAdded ==
    last = "setup" =>
        \A m \in DOMAIN data : \A w \in data[m].work_areas.ids :
            data[m].capabilities_work_areas =>
                \E i \in 1..Len(entities) :
                    /\ entities[i].unique_id = Identity(m, w)
                    /\ entities[i].mower_id = m
                    /\ entities[i].work_area_id = w

\* Setup has completed for two mowers with work areas, one of them capable
\* and with more than one work area.
C2_Witness ==
    /\ last = "setup"
    /\ Cardinality(DOMAIN data) = 2
    /\ \A m \in DOMAIN data : data[m].work_areas.ids # {}
    /\ \E m \in DOMAIN data :
          /\ data[m].capabilities_work_areas
          /\ Cardinality(data[m].work_areas.ids) = 2
          /\ registry # {}

Live(m, w) ==
    /\ m \in DOMAIN data
    /\ data[m].capabilities_work_areas
    /\ w \in data[m].work_areas.ids

Stale(m, w) ==
    /\ m \in DOMAIN data
    /\ data[m].capabilities_work_areas
    /\ ~data[m].work_areas.is_none
    /\ w \notin data[m].work_areas.ids

Registered(m, w) == RegistryEntry(Identity(m, w), ENTRY) \in registry

\* C6: the registered work-area instances converge to the live set: an
\* instance whose work-area id has left the snapshot is eventually removed
\* (unless the id comes back), and a work-area id that is in the snapshot
\* eventually has a registered instance (unless the id leaves).
C6_Converges ==
    \A m \in MowerIds : \A w \in AreaIds :
        /\ (Registered(m, w) /\ Stale(m, w)) ~> (~Registered(m, w) \/ ~Stale(m, w))
        /\ (Live(m, w) /\ ~Registered(m, w)) ~> (Registered(m, w) \/ ~Live(m, w))

\* C3: a work-area write makes one vendor call set_cutting_height_workarea,
\* then sleeps 5, then requests one refresh; a refresh is requested only after
\* the vendor call has returned and 5 time units have passed since.
C3_WorkAreaWriteOrder ==
    wreq.kind = "work_area" =>
        /\ \A i \in 1..Len(calls) :
              calls[i].op = "async_request_refresh" =>
                  /\ i = 3
                  /\ vendor_result = Ok
                  /\ calls[i].at >= returned_at + 5
        /\ (wpc = "done" /\ outcome = Ok) =>
              /\ Ops(calls) = <<"set_cutting_height_workarea", "sleep",
                                "async_request_refresh">>
              /\ calls[1].args[1] = wreq.mower_id
              /\ calls[1].args[3] = wreq.work_area_id
              /\ calls[2].args = <<5>>
              /\ calls[1].at <= returned_at
              /\ calls[2].at = returned_at

\* A work-area write has succeeded, its vendor call having taken time.
C3_Witness ==
    /\ wreq.kind = "work_area"
    /\ wpc = "done"
    /\ outcome = Ok
    /\ returned_at > 0

\* C4: a device-level write makes exactly one call, set_cutting_height, for
\* the entity's mower with the value truncated towards zero, and neither
\* sleeps nor requests a refresh.
C4_DeviceWriteSingleCall ==
    wreq.kind = "device" =>
        /\ Len(calls) = 1
        /\ calls[1].op = "set_cutting_height"
        /\ calls[1].args[1] = wreq.mower_id
        /\ LET sent == calls[1].args[2]
           IN  IF wreq.value >= 0
               THEN 10 * sent <= wreq.value /\ wreq.value < 10 * sent + 10
               ELSE 10 * sent >= wreq.value /\ wreq.value > 10 * sent - 10
        /\ wake_at = -1
        /\ wpc \in {"vendor", "done"}

\* A device-level write of a value that is no integer has succeeded.
C4_Witness ==
    /\ wreq.kind = "device"
    /\ wpc = "done"
    /\ outcome = Ok
    /\ wreq.value = 29

\* C5: on either write path, when the vendor call raises ApiException the
\* write ends with HomeAssistantError whose message contains the exception's
\* text; ApiException never is the outcome of a write.
C5_ApiExceptionTranslated ==
    /\ vendor_result.type = "ApiException" =>
          /\ wpc = "done"
          /\ outcome.type = "HomeAssistantError"
          /\ Contains(outcome.message, vendor_result.message)
          /\ Len(outcome.message) > Len(vendor_result.message)
    /\ outcome.type # "ApiException"

\* The vendor call of a write raised ApiException with a text.
C5_Witness ==
    /\ vendor_result = [type |-> "ApiException", message |-> <<"rate", "limit">>]
    /\ wpc = "done"

\* C9: when the vendor call of a work-area write raises, the write is over at
\* once with an error: one vendor call has been made, no sleep is entered and
\* no refresh is requested.
C9_FailureSurfacesAtOnce ==
    (wreq.kind = "work_area" /\ vendor_result.type \notin {"none", "ok"}) =>
        /\ wpc = "done"
        /\ outcome.type \notin {"none", "ok"}
        /\ Ops(calls) = <<"set_cutting_height_workarea">>
        /\ wake_at = -1

\* The vendor call of a work-area write raised after some time.
C9_Witness ==
    /\ wreq.kind = "work_area"
    /\ vendor_result.type = "ApiException"
    /\ returned_at > 0

\* The mocked calls that raise, by their place in the set-up.
Failing == {i \in 1..Len(TeslaCalls) : side_effect[TeslaCalls[i]] # "none"}

C8_PlantOnOffStates ==
    /\ Len(group_registry) = described
    /\ \A i \in 1..Len(group_registry) :
          group_registry[i] = [domain |-> "plant", on_states |-> {"problem"},
                               default_on_state |-> "problem", off_state |-> "ok"]

\* The plant platform has described its states.
C8_Witness == described >= 1 /\ Len(group_registry) >= 1

====
